---- MODULE Spec2Model ----
(***************************************************************************)
(* A model of RAGSystem (rag_system.py): the chunker loop, the in-memory   *)
(* vector index with its chunk lists and configuration, the two persisted  *)
(* artifacts <filepath>.index and <filepath>.metadata, retrieval and       *)
(* answer generation.                                                      *)
(*                                                                         *)
(* Texts are sequences of one-character strings.  An embedding is modelled *)
(* as a direction (an angle in degrees) and the inner product of two       *)
(* normalised embeddings as 100 * cos of the angle between them.           *)
(***************************************************************************)
EXTENDS Integers, Sequences, FiniteSets, TLC

VARIABLES
    index,          \* self.index: None or the FAISS index (its vectors, in add order)
    documents,      \* self.documents
    metadata,       \* self.metadata
    chunk_size,     \* self.chunk_size
    chunk_overlap,  \* self.chunk_overlap
    top_k,          \* self.top_k
    groq_client,    \* self.groq_client: TRUE when a client is configured, FALSE for None
    index_file,     \* the artifact <filepath>.index on disk
    metadata_file,  \* the artifact <filepath>.metadata on disk
    ready,          \* TRUE once a build_index or load_index call of this object returned
    saved_with,     \* the vectors written by the save_index call that wrote metadata_file
    saved,          \* what retrieve returned when the artifacts on disk were saved
    faiss_checks_k, \* whether the installed faiss rejects search(x, k) with k <= 0
    last,           \* the last call: its name, input, outcome and returned value
    text,           \* chunk_text: the argument
    start,          \* chunk_text: the local start
    chunks,         \* chunk_text: the local chunks
    starts,         \* chunk_text: the value of start at each chunks.append, in order
    pc,             \* chunk_text: "loop" while in the while loop, "done" once returned
    file_paths,     \* load_documents: the argument
    next_path,      \* load_documents: the position in file_paths of the for loop
    all_chunks,     \* load_documents: the local all_chunks
    load_pc         \* load_documents: "loop" while in the for loop, "done" once returned

mem == <<index, documents, metadata, chunk_size, chunk_overlap, top_k>>
disk == <<index_file, metadata_file>>
ghost == <<saved_with, saved>>
rag_vars == <<mem, groq_client, disk, ready, ghost, faiss_checks_k, last>>
chunk_vars == <<text, start, chunks, starts, pc>>
load_vars == <<file_paths, next_path, all_chunks, load_pc>>
vars == <<rag_vars, chunk_vars, load_vars>>

----------------------------------------------------------------------------
(* Bounds of the model. *)

MaxDocs == 3        \* longest chunk list handed to build_index
MaxTextLen == 4     \* longest text handed to chunk_text
MaxChunkSize == 3   \* largest chunk_size and chunk_overlap tried in chunk_text
MaxPaths == 2       \* longest list of paths handed to load_documents

----------------------------------------------------------------------------
(* Python values. *)

\* None
None == [type |-> "NoneType"]

Min(a, b) == IF a < b THEN a ELSE b
Max(a, b) == IF a > b THEN a ELSE b

\* s[a:b] of Python for a sequence s: negative offsets count from the end,
\* offsets are clamped to 0..len(s), an empty range gives the empty sequence.
SliceBound(n, i) == IF i < 0 THEN Max(i + n, 0) ELSE Min(i, n)
PySlice(s, a, b) ==
    LET lo == SliceBound(Len(s), a)
        hi == SliceBound(Len(s), b)
    IN  IF hi <= lo THEN <<>> ELSE SubSeq(s, lo + 1, hi)

Whitespace == {" "}

RECURSIVE LStrip(_)
LStrip(s) == IF s # <<>> /\ Head(s) \in Whitespace THEN LStrip(Tail(s)) ELSE s

RECURSIVE RStrip(_)
RStrip(s) ==
    IF s # <<>> /\ s[Len(s)] \in Whitespace THEN RStrip(SubSeq(s, 1, Len(s) - 1)) ELSE s

\* str.strip()
Strip(s) == RStrip(LStrip(s))

\* d.get(k, default) of a dict d
Get(d, k, default) == IF k \in DOMAIN d THEN d[k] ELSE default

----------------------------------------------------------------------------
(* chunk_text, one action per pass of its while loop. *)

Alphabet == {" ", "a", "b"}

TextsUpTo(n) == UNION {[1..m -> Alphabet] : m \in 0..n}

\* end = start + self.chunk_size
WindowEnd == start + chunk_size

\* A chunker that appends the chunk without strip().
AppendChunkUnstripped ==
    /\ chunks' = Append(chunks, PySlice(text, start, WindowEnd))
    /\ starts' = Append(starts, start)

\* chunk = text[start:end]; chunks.append(chunk.strip())
AppendChunk ==
    /\ chunks' = Append(chunks, Strip(PySlice(text, start, WindowEnd)))
    /\ starts' = Append(starts, start)

\* A chunker that forgets the overlap: start = end.
NextStartWithoutOverlap == WindowEnd

\* start = end - self.chunk_overlap
NextStart == WindowEnd - chunk_overlap

\* A chunker whose break test is off by one: if end > len(text): break.
BreakTestStrict == WindowEnd > Len(text)

\* if end >= len(text): break
BreakTest == WindowEnd >= Len(text)

\* The while test fails: return chunks.
ChunkLoopExit ==
    /\ pc = "loop"
    /\ ~(start < Len(text))
    /\ pc' = "done"
    /\ UNCHANGED <<text, start, chunks, starts, rag_vars, load_vars>>

\* A pass that ends in the break: return chunks.
ChunkLastPass ==
    /\ pc = "loop"
    /\ start < Len(text)
    /\ Len(chunks) <= MaxTextLen
    /\ BreakTest
    /\ AppendChunk
    /\ pc' = "done"
    /\ UNCHANGED <<text, start, rag_vars, load_vars>>

\* A pass that goes round the loop again.
ChunkPass ==
    /\ pc = "loop"
    /\ start < Len(text)
    /\ Len(chunks) <= MaxTextLen
    /\ ~BreakTest
    /\ AppendChunk
    /\ start' = NextStart
    /\ UNCHANGED <<text, pc, rag_vars, load_vars>>

----------------------------------------------------------------------------
(* load_documents: the for loop over file_paths, one action per path.      *)
(* A path is the sequence of its components.                               *)

\* chunk_text(text) as a function, from the window start s on.
RECURSIVE ChunkTextFrom(_, _)
ChunkTextFrom(t, s) ==
    IF ~(s < Len(t)) THEN <<>>
    ELSE LET end == s + chunk_size
             chunk == Strip(PySlice(t, s, end))
         IN  IF end >= Len(t) THEN <<chunk>>
             ELSE <<chunk>> \o ChunkTextFrom(t, end - chunk_overlap)

ChunkText(t) == ChunkTextFrom(t, 0)

\* Path(file_path) drops the "." components of file_path.
PurePath(file_path) ==
    LET parts == SelectSeq(file_path, LAMBDA c : c # ".")
    IN  IF parts = <<>> THEN <<".">> ELSE parts

\* The files on disk, by path, with what f.read() gives.
Files ==
    { [path |-> <<"documents", "crop_farming.txt">>, content |-> <<"a", "b", " ", "b", "a">>],
      [path |-> <<"sample_doc.txt">>, content |-> <<"a">>],
      [path |-> <<"documents", "blank.txt">>, content |-> <<" ", " ">>],
      [path |-> <<"empty.txt">>, content |-> <<>>] }

\* The paths load_documents is called with; one of them names no file.
FilePaths ==
    { <<"documents", "crop_farming.txt">>, <<".", "sample_doc.txt">>,
      <<"documents", "blank.txt">>, <<"empty.txt">>, <<"missing.txt">> }

PathLists == UNION {[1..n -> FilePaths] : n \in 0..MaxPaths}

\* path.exists()
Exists(path) == \E f \in Files : f.path = path

\* with open(path, 'r', encoding='utf-8') as f: content = f.read()
Read(path) == (CHOOSE f \in Files : f.path = path).content

\* The records appended for one file: enumerate(chunks) counts from 0.
FileRecords(path) ==
    LET file_chunks == ChunkText(Read(path))
    IN  [i \in 1..Len(file_chunks) |->
            [text |-> file_chunks[i],
             source |-> path,
             chunk_id |-> i - 1,
             total_chunks |-> Len(file_chunks)]]

\* A load_documents that stops at the first path that does not exist.
LoadStopAtMissing ==
    /\ load_pc = "loop"
    /\ next_path <= Len(file_paths)
    /\ ~Exists(PurePath(file_paths[next_path]))
    /\ load_pc' = "done"
    /\ UNCHANGED <<file_paths, next_path, all_chunks, rag_vars, chunk_vars>>

\* if not path.exists(): print(...); continue
LoadSkip ==
    /\ load_pc = "loop"
    /\ next_path <= Len(file_paths)
    /\ ~Exists(PurePath(file_paths[next_path]))
    /\ next_path' = next_path + 1
    /\ UNCHANGED <<file_paths, all_chunks, load_pc, rag_vars, chunk_vars>>

\* A pass of the for loop over a file that exists.
LoadFile ==
    /\ load_pc = "loop"
    /\ next_path <= Len(file_paths)
    /\ Exists(PurePath(file_paths[next_path]))
    /\ all_chunks' = all_chunks \o FileRecords(PurePath(file_paths[next_path]))
    /\ next_path' = next_path + 1
    /\ UNCHANGED <<file_paths, load_pc, rag_vars, chunk_vars>>

\* return all_chunks
LoadReturn ==
    /\ load_pc = "loop"
    /\ next_path > Len(file_paths)
    /\ load_pc' = "done"
    /\ UNCHANGED <<file_paths, next_path, all_chunks, rag_vars, chunk_vars>>

----------------------------------------------------------------------------
(* Chunk records, queries, the embedding model and the FAISS index. *)

\* The chunk texts of a document, in order.
ChunkTexts == <<"cats are mammals", "dogs are mammals", "birds lay eggs", "fish have gills">>

\* The chunk records load_documents makes of a file of n chunks.
Corpus(n) ==
    [i \in 1..n |-> [text |-> ChunkTexts[i], source |-> "documents/animals.txt",
                     chunk_id |-> i - 1, total_chunks |-> n]]

\* A record without a 'text' key (build_index and generate_answer take any
\* list of dicts).
NoTextRecord == [source |-> "documents/animals.txt", chunk_id |-> 0, total_chunks |-> 1]

DocLists == {Corpus(n) : n \in 0..MaxDocs} \cup {<<NoTextRecord>>}

Queries == {"mammals", "eggs and gills"}

\* embedding_model.encode followed by faiss.normalize_L2: the direction of
\* the embedding of a string, in degrees.
Encode(s) ==
    CASE s = "cats are mammals" -> 0
      [] s = "dogs are mammals" -> 60
      [] s = "birds lay eggs" -> 120
      [] s = "fish have gills" -> 180
      [] s = "mammals" -> 20
      [] s = "eggs and gills" -> 100

\* The inner product of two unit vectors, times 100.
InnerProduct(a, b) ==
    LET d == IF a < b THEN b - a ELSE a - b
    IN  CASE d = 0 -> 100
          [] d = 20 -> 94
          [] d = 40 -> 77
          [] d = 60 -> 50
          [] d = 80 -> 17
          [] d = 100 -> -17
          [] d = 120 -> -50
          [] d = 140 -> -77
          [] d = 160 -> -94
          [] d = 180 -> -100

\* The score FAISS gives a padding hit (label -1) of IndexFlatIP.search.
PaddingScore == -340

\* Positions 1..Len(vecs) of an IndexFlatIP by descending inner product
\* with qv, equal scores by ascending position.
RECURSIVE Ranked(_, _, _)
Ranked(vecs, qv, left) ==
    IF left = {} THEN <<>>
    ELSE LET best == CHOOSE i \in left : \A j \in left :
                        \/ InnerProduct(qv, vecs[i]) > InnerProduct(qv, vecs[j])
                        \/ /\ InnerProduct(qv, vecs[i]) = InnerProduct(qv, vecs[j])
                           /\ i <= j
         IN  <<best>> \o Ranked(vecs, qv, left \ {best})

\* index.search(query_embedding, k) for k >= 1: k (score, label) pairs, labels
\* counted from 0, padded with label -1 when the index holds fewer than k vectors.
Search(idx, qv, k) ==
    LET order == Ranked(idx.vecs, qv, 1..Len(idx.vecs))
    IN  [i \in 1..k |->
            IF i <= Len(order)
            THEN [score |-> InnerProduct(qv, idx.vecs[order[i]]), idx |-> order[i] - 1]
            ELSE [score |-> PaddingScore, idx |-> -1]]

\* lst[i] of a Python list for -len(lst) <= i < len(lst)
PyItem(lst, i) == IF i < 0 THEN lst[Len(lst) + i + 1] ELSE lst[i + 1]

----------------------------------------------------------------------------
(* retrieve, generate_answer and query as functions of the current state. *)

Raised(e) == [outcome |-> e, result |-> None]
Returned(v) == [outcome |-> "returned", result |-> v]

\* A retrieve that asks for top_k hits whatever the corpus size.
SearchKWithoutMin == top_k

\* k = min(self.top_k, len(self.documents))
SearchK == Min(top_k, Len(documents))

\* The hits the loop of retrieve keeps: idx < len(self.metadata)
Kept(hits) == SelectSeq(hits, LAMBDA h : h.idx < Len(metadata))

\* doc = self.metadata[idx].copy(); doc['score'] = float(score)
Scored(h) == [score |-> h.score] @@ PyItem(metadata, h.idx)

RetrieveCall(query) ==
    IF index = None THEN Raised("ValueError: Index not built. Call build_index() first.")
    ELSE IF SearchK <= 0
         THEN IF faiss_checks_k THEN Raised("AssertionError") ELSE Returned(<<>>)
    ELSE LET kept == Kept(Search(index, Encode(query), SearchK))
         IN  IF \E i \in 1..Len(kept) : kept[i].idx < 0 - Len(metadata)
             THEN Raised("IndexError")
             ELSE Returned([i \in 1..Len(kept) |-> Scored(kept[i])])

Str(s) == [type |-> "str", value |-> s]

DisabledSentinel == Str("LLM not available. Please set GROQ_API_KEY environment variable.")

\* What groq_client.chat.completions.create can do.
Completions == {"content", "no content", "no choices", "api error"}

GenerateCall(query, context_docs, completion) ==
    IF ~groq_client THEN Returned(DisabledSentinel)
    ELSE IF \E i \in 1..Len(context_docs) : "text" \notin DOMAIN context_docs[i]
         THEN Raised("KeyError: 'text'")
    ELSE CASE completion = "content" -> Returned(Str("an answer"))
           [] completion = "no content" -> Returned(None)
           [] completion = "no choices" ->
                Returned(Str("Error generating answer: list index out of range"))
           [] completion = "api error" ->
                Returned(Str("Error generating answer: Connection error."))

\* A query that lets a failed completion call escape as an exception.
QueryCallWithoutCatch(question, completion) ==
    LET retrieved == RetrieveCall(question)
    IN  IF retrieved.outcome # "returned" THEN retrieved
        ELSE IF groq_client /\ completion \in {"no choices", "api error"}
             THEN Raised("APIConnectionError")
        ELSE Returned([question |-> question,
                       retrieved_documents |-> retrieved.result,
                       answer |-> GenerateCall(question, retrieved.result, completion).result])

\* retrieved_docs = self.retrieve(question); answer = self.generate_answer(...)
QueryCall(question, completion) ==
    LET retrieved == RetrieveCall(question)
    IN  IF retrieved.outcome # "returned" THEN retrieved
        ELSE LET answer == GenerateCall(question, retrieved.result, completion)
             IN  IF answer.outcome # "returned" THEN answer
                 ELSE Returned([question |-> question,
                                retrieved_documents |-> retrieved.result,
                                answer |-> answer.result])

----------------------------------------------------------------------------
(* The operations of a RAGSystem. *)

\* A call of op with arg, its query, question or documents (None for the
\* other operations).
Call(op, arg, r) == [op |-> op, arg |-> arg, outcome |-> r.outcome, result |-> r.result]

\* The (chunk_size, chunk_overlap, top_k) a RAGSystem is constructed with:
\* the values of main.py, and values that differ from them in all three.
Configs == {<<512, 50, 3>>, <<256, 25, 1>>}

\* The state __init__ leaves.
Constructed(cs, co, tk, key) ==
    /\ chunk_size' = cs
    /\ chunk_overlap' = co
    /\ top_k' = tk
    /\ index' = None
    /\ documents' = <<>>
    /\ metadata' = <<>>
    /\ groq_client' = key

\* RAGSystem(...): a new object (a new process); the disk is what it was.
Construct(cs, co, tk, key) ==
    /\ Constructed(cs, co, tk, key)
    /\ ready' = FALSE
    /\ last' = Call("__init__", None, Returned(None))
    /\ UNCHANGED <<disk, ghost, faiss_checks_k, chunk_vars, load_vars>>

\* embeddings of build_index, added to a new IndexFlatIP
Embedded(docs) == [vecs |-> [i \in 1..Len(docs) |-> Encode(docs[i].text)]]

\* A build_index that assigns self.documents before it tests for no documents.
BuildIndexAssigningFirst(docs) ==
    /\ documents' = docs
    /\ \/ /\ docs = <<>>
          /\ last' = Call("build_index", docs, Raised("ValueError: No documents provided"))
          /\ UNCHANGED <<index, metadata, ready>>
       \/ /\ docs # <<>>
          /\ \E i \in 1..Len(docs) : "text" \notin DOMAIN docs[i]
          /\ last' = Call("build_index", docs, Raised("KeyError: 'text'"))
          /\ UNCHANGED <<index, metadata, ready>>
       \/ /\ docs # <<>>
          /\ \A i \in 1..Len(docs) : "text" \in DOMAIN docs[i]
          /\ index' = Embedded(docs)
          /\ metadata' = docs
          /\ ready' = TRUE
          /\ last' = Call("build_index", docs, Returned(None))
    /\ UNCHANGED <<chunk_size, chunk_overlap, top_k, groq_client, disk, ghost,
                   faiss_checks_k, chunk_vars, load_vars>>

BuildIndex(docs) ==
    /\ \/ /\ docs = <<>>
          /\ last' = Call("build_index", docs, Raised("ValueError: No documents provided"))
          /\ UNCHANGED <<index, documents, metadata, ready>>
       \/ /\ docs # <<>>
          /\ \E i \in 1..Len(docs) : "text" \notin DOMAIN docs[i]
          /\ documents' = docs
          /\ last' = Call("build_index", docs, Raised("KeyError: 'text'"))
          /\ UNCHANGED <<index, metadata, ready>>
       \/ /\ docs # <<>>
          /\ \A i \in 1..Len(docs) : "text" \in DOMAIN docs[i]
          /\ documents' = docs
          /\ index' = Embedded(docs)
          /\ metadata' = docs
          /\ ready' = TRUE
          /\ last' = Call("build_index", docs, Returned(None))
    /\ UNCHANGED <<chunk_size, chunk_overlap, top_k, groq_client, disk, ghost,
                   faiss_checks_k, chunk_vars, load_vars>>

\* A retrieve that writes the score into the stored record, without .copy().
RetrieveWithoutCopy(query) ==
    /\ last' = Call("retrieve", query, RetrieveCall(query))
    /\ metadata' =
          IF RetrieveCall(query).outcome # "returned" \/ SearchK <= 0 THEN metadata
          ELSE LET kept == Kept(Search(index, Encode(query), SearchK))
                   Hits(i) == {j \in 1..Len(kept) :
                                  kept[j].idx \in {i - 1, i - 1 - Len(metadata)}}
               IN  [i \in 1..Len(metadata) |->
                       IF Hits(i) = {} THEN metadata[i]
                       ELSE [score |-> kept[CHOOSE j \in Hits(i) : TRUE].score]
                                @@ metadata[i]]
    /\ UNCHANGED <<index, documents, chunk_size, chunk_overlap, top_k, groq_client,
                   disk, ready, ghost, faiss_checks_k, chunk_vars, load_vars>>

Retrieve(query) ==
    /\ last' = Call("retrieve", query, RetrieveCall(query))
    /\ UNCHANGED <<mem, groq_client, disk, ready, ghost, faiss_checks_k, chunk_vars, load_vars>>

\* The context sequences generate_answer is called with: what retrieve
\* returns, the empty sequence, and a record without a 'text' key.
Contexts(query) ==
    {<<>>, <<NoTextRecord>>}
        \cup (IF RetrieveCall(query).outcome = "returned"
              THEN {RetrieveCall(query).result} ELSE {})

GenerateAnswer(query, context_docs, completion) ==
    /\ last' = Call("generate_answer", None, GenerateCall(query, context_docs, completion))
    /\ UNCHANGED <<mem, groq_client, disk, ready, ghost, faiss_checks_k, chunk_vars, load_vars>>

Query(question, completion) ==
    /\ last' = Call("query", question, QueryCall(question, completion))
    /\ UNCHANGED <<mem, groq_client, disk, ready, ghost, faiss_checks_k, chunk_vars, load_vars>>

\* What faiss.write_index puts in <filepath>.index
IndexBlob == [vecs |-> index.vecs]

\* A save_index that leaves top_k out of the pickled dict.
MetadataBlobWithoutTopK ==
    [documents |-> documents, metadata |-> metadata, chunk_size |-> chunk_size,
     chunk_overlap |-> chunk_overlap]

\* What pickle.dump puts in <filepath>.metadata
MetadataBlob ==
    [documents |-> documents, metadata |-> metadata, chunk_size |-> chunk_size,
     chunk_overlap |-> chunk_overlap, top_k |-> top_k]

\* A metadata file that open(..., 'wb') truncated and pickle.dump did not finish.
Truncated == [truncated |-> TRUE]

\* What retrieve returns for each query, and the configuration, as of now.
Snapshot ==
    [results |-> [q \in Queries |-> RetrieveCall(q)],
     chunk_size |-> chunk_size, chunk_overlap |-> chunk_overlap, top_k |-> top_k]

\* How far a save_index call gets.
SaveRuns == {"cannot open index file", "stopped before metadata",
             "stopped in metadata", "complete"}

SaveIndex(run) ==
    /\ \/ /\ index = None
          /\ last' = Call("save_index", None, Raised("ValueError: No index to save"))
          /\ UNCHANGED <<disk, ghost>>
       \/ /\ index # None
          /\ run = "cannot open index file"
          /\ last' = Call("save_index", None, Raised("RuntimeError"))
          /\ UNCHANGED <<disk, ghost>>
       \/ /\ index # None
          /\ run = "stopped before metadata"
          /\ index_file' = IndexBlob
          /\ saved' = None
          /\ UNCHANGED <<metadata_file, saved_with>>
          /\ last' = Call("save_index", None, Raised("OSError"))
       \/ /\ index # None
          /\ run = "stopped in metadata"
          /\ index_file' = IndexBlob
          /\ metadata_file' = Truncated
          /\ saved_with' = None
          /\ saved' = None
          /\ last' = Call("save_index", None, Raised("OSError"))
       \/ /\ index # None
          /\ run = "complete"
          /\ index_file' = IndexBlob
          /\ metadata_file' = MetadataBlob
          /\ saved_with' = index.vecs
          /\ saved' = Snapshot
          /\ last' = Call("save_index", None, Returned(None))
    /\ UNCHANGED <<mem, groq_client, ready, faiss_checks_k, chunk_vars, load_vars>>

\* self.index = faiss.read_index(f"{filepath}.index")
ReadIndex == [vecs |-> index_file.vecs]

LoadIndex ==
    /\ \/ /\ index_file = None
          /\ last' = Call("load_index", None, Raised("RuntimeError"))
          /\ UNCHANGED <<mem, ready>>
       \/ /\ index_file # None
          /\ metadata_file = None
          /\ index' = ReadIndex
          /\ last' = Call("load_index", None, Raised("FileNotFoundError"))
          /\ UNCHANGED <<documents, metadata, chunk_size, chunk_overlap, top_k, ready>>
       \/ /\ index_file # None
          /\ metadata_file = Truncated
          /\ index' = ReadIndex
          /\ last' = Call("load_index", None, Raised("EOFError"))
          /\ UNCHANGED <<documents, metadata, chunk_size, chunk_overlap, top_k, ready>>
       \/ /\ index_file # None
          /\ metadata_file \notin {None, Truncated}
          /\ index' = ReadIndex
          /\ documents' = metadata_file["documents"]
          /\ metadata' = metadata_file["metadata"]
          /\ chunk_size' = Get(metadata_file, "chunk_size", chunk_size)
          /\ chunk_overlap' = Get(metadata_file, "chunk_overlap", chunk_overlap)
          /\ top_k' = Get(metadata_file, "top_k", top_k)
          /\ ready' = TRUE
          /\ last' = Call("load_index", None, Returned(None))
    /\ UNCHANGED <<groq_client, disk, ghost, faiss_checks_k, chunk_vars, load_vars>>

----------------------------------------------------------------------------
(* The specifications. *)

NoChunking ==
    /\ text = <<>>
    /\ start = 0
    /\ chunks = <<>>
    /\ starts = <<>>
    /\ pc = "idle"

NoLoading ==
    /\ file_paths = <<>>
    /\ next_path = 1
    /\ all_chunks = <<>>
    /\ load_pc = "idle"

NoCalls ==
    /\ index = None
    /\ documents = <<>>
    /\ metadata = <<>>
    /\ index_file = None
    /\ metadata_file = None
    /\ ready = FALSE
    /\ saved_with = None
    /\ saved = None
    /\ last = Call("__init__", None, Returned(None))

\* A RAGSystem just constructed without an API key, nothing on disk.
Init ==
    /\ NoCalls
    /\ \E c \in Configs : chunk_size = c[1] /\ chunk_overlap = c[2] /\ top_k = c[3]
    /\ groq_client = FALSE
    /\ faiss_checks_k \in BOOLEAN
    /\ NoChunking
    /\ NoLoading

\* The index and its two artifacts: construction, build, retrieval, save, load.
Next ==
    \/ \E c \in Configs : Construct(c[1], c[2], c[3], FALSE)
    \/ \E docs \in DocLists : BuildIndex(docs)
    \/ \E q \in Queries : Retrieve(q)
    \/ \E run \in SaveRuns : SaveIndex(run)
    \/ LoadIndex

Spec == Init /\ [][Next]_vars

\* A RAGSystem just constructed, with or without an API key.
GenInit ==
    /\ NoCalls
    /\ \E c \in Configs : chunk_size = c[1] /\ chunk_overlap = c[2] /\ top_k = c[3]
    /\ groq_client \in BOOLEAN
    /\ faiss_checks_k \in BOOLEAN
    /\ NoChunking
    /\ NoLoading

\* Retrieval and generation over a built index.
GenNext ==
    \/ \E docs \in DocLists : BuildIndex(docs)
    \/ \E q \in Queries : Retrieve(q)
    \/ \E q \in Queries, c \in Completions : \E ctx \in Contexts(q) : GenerateAnswer(q, ctx, c)
    \/ \E q \in Queries, c \in Completions : Query(q, c)

GenSpec == GenInit /\ [][GenNext]_vars

\* chunk_text(text) of a RAGSystem with the given chunk_size and chunk_overlap.
ChunkInit ==
    /\ NoCalls
    /\ chunk_size \in 0..MaxChunkSize
    /\ chunk_overlap \in 0..MaxChunkSize
    /\ top_k = 3
    /\ groq_client = FALSE
    /\ faiss_checks_k = TRUE
    /\ text \in TextsUpTo(MaxTextLen)
    /\ start = 0
    /\ chunks = <<>>
    /\ starts = <<>>
    /\ pc = "loop"
    /\ NoLoading

ChunkNext ==
    \/ ChunkLoopExit
    \/ ChunkLastPass
    \/ ChunkPass

ChunkSpec == ChunkInit /\ [][ChunkNext]_vars

\* load_documents(file_paths) of a RAGSystem whose chunk_overlap is smaller
\* than its chunk_size.
LoadInit ==
    /\ NoCalls
    /\ chunk_size \in 1..MaxChunkSize
    /\ chunk_overlap \in 0..(chunk_size - 1)
    /\ top_k = 3
    /\ groq_client = FALSE
    /\ faiss_checks_k = TRUE
    /\ NoChunking
    /\ file_paths \in PathLists
    /\ next_path = 1
    /\ all_chunks = <<>>
    /\ load_pc = "loop"

LoadNext ==
    \/ LoadSkip
    \/ LoadFile
    \/ LoadReturn

LoadSpec == LoadInit /\ [][LoadNext]_vars

----------------------------------------------------------------------------
(* chunk_text: the claims about the window layout and the chunk count. *)

ValidChunking == 0 <= chunk_overlap /\ chunk_overlap < chunk_size

Stride == chunk_size - chunk_overlap

\* text[s : s + chunk_size] for an offset s >= 0, as a subsequence of text
Window(s) == SubSeq(text, s + 1, Min(s + chunk_size, Len(text)))

\* C5: with 0 <= chunk_overlap < chunk_size, the i-th chunk is taken from
\* offset (i - 1) * (chunk_size - chunk_overlap), so the first from offset 0
\* and each later one from the previous offset plus the stride; every chunk
\* is the stripped window of chunk_size characters at its offset and is at
\* most chunk_size long; every chunk but the last has a window that ends
\* before len(text), and the last one has a window that reaches len(text).
C5_WindowLayout ==
    ValidChunking =>
        /\ Len(starts) = Len(chunks)
        /\ \A i \in 1..Len(chunks) :
              /\ starts[i] = (i - 1) * Stride
              /\ chunks[i] = Strip(Window(starts[i]))
              /\ Len(chunks[i]) <= chunk_size
        /\ \A i \in 1..(Len(chunks) - 1) : starts[i] + chunk_size < Len(text)
        /\ pc = "loop" => \A i \in 1..Len(chunks) : starts[i] + chunk_size < Len(text)
        /\ pc = "done" /\ chunks # <<>> => starts[Len(chunks)] + chunk_size >= Len(text)
        /\ pc = "done" /\ chunks = <<>> => text = <<>>

\* chunk_text returned three or more overlapping chunks, one of which strip() shortened.
C5_Witness ==
    /\ pc = "done"
    /\ ValidChunking
    /\ chunk_overlap >= 1
    /\ Len(chunks) >= 3
    /\ \E i \in 1..Len(chunks) : chunks[i] # Window(starts[i])

\* C6 as claimed: every text with 0 <= len(text) <= chunk_size gives exactly
\* one chunk, text.strip().
C6_Claimed ==
    pc = "done" /\ Len(text) <= chunk_size => chunks = <<Strip(text)>>

\* C6 as amended: a text with 1 <= len(text) <= chunk_size gives exactly one
\* chunk, text.strip(); the empty text gives no chunk.
C6_OneChunk ==
    pc = "done" =>
        /\ 1 <= Len(text) /\ Len(text) <= chunk_size => chunks = <<Strip(text)>>
        /\ Len(text) = 0 => chunks = <<>>

\* chunk_text returned for a text as long as chunk_size that strip() shortened.
C6_Witness ==
    /\ pc = "done"
    /\ Len(text) = chunk_size
    /\ Len(text) >= 2
    /\ Strip(text) # text
    /\ Len(chunks) = 1

\* ceil(a / b) for b > 0
CeilDiv(a, b) == (a + b - 1) \div b

\* C7: with 0 <= chunk_overlap < chunk_size, a text longer than chunk_size
\* gives ceil((len(text) - chunk_overlap) / (chunk_size - chunk_overlap)) chunks.
C7_ChunkCount ==
    pc = "done" /\ ValidChunking /\ Len(text) > chunk_size =>
        Len(chunks) = CeilDiv(Len(text) - chunk_overlap, Stride)

\* chunk_text returned for a text longer than chunk_size whose last window
\* ends exactly at len(text), and for one whose last window reaches past it.
C7_Witness ==
    /\ pc = "done"
    /\ ValidChunking
    /\ chunk_overlap >= 1
    /\ Len(text) > chunk_size
    /\ Len(chunks) >= 2
    /\ starts[Len(chunks)] + chunk_size = Len(text)

----------------------------------------------------------------------------
(* The index lifecycle and the persisted artifacts. *)

NotReadyErrors ==
    {"ValueError: Index not built. Call build_index() first.", "ValueError: No index to save"}

\* C1: as long as no build_index or load_index call of the object has
\* returned, a retrieve, query or save_index call fails with a not-ready
\* error and changes neither the object nor the disk; once one has returned,
\* no later call on the object leaves it without an index.
C1_Lifecycle ==
    [][ /\ (~ready /\ last'.op \in {"retrieve", "query", "save_index"}) =>
              (last'.outcome \in NotReadyErrors /\ UNCHANGED <<mem, disk>>)
        /\ (ready /\ last'.op # "__init__") => (ready' /\ index' # None) ]_vars

\* C2: a load_index call that fails leaves index, documents, metadata and
\* the configuration as they were; one that returns leaves the index that
\* was saved together with the documents, metadata and configuration it
\* leaves.
C2_LoadAtomic ==
    [][ last'.op = "load_index" =>
          /\ last'.outcome # "returned" => UNCHANGED mem
          /\ last'.outcome = "returned" => index'.vecs = saved_with' ]_vars

\* C3: after a load_index call that returned, the vector index it read from
\* the .index artifact is the one that was written by the save_index call
\* that wrote the .metadata artifact it read.
C3_OneUnit ==
    last.op = "load_index" /\ last.outcome = "returned" =>
        index_file.vecs = saved_with

\* C4: after a load_index call that returned, reading the artifacts of a
\* save_index call that returned, retrieve returns for every query what it
\* returned when that save_index was called (the same documents in the same
\* order with the same scores), and chunk_size, chunk_overlap and top_k are
\* the saved ones, whatever object loads them.
C4_RoundTrip ==
    last.op = "load_index" /\ last.outcome = "returned" /\ saved # None =>
        Snapshot = saved

\* A load restored a corpus of two or more chunks saved with top_k = 1, so
\* that the restored top_k decides how many documents retrieve returns.
C4_Witness ==
    /\ last.op = "load_index"
    /\ last.outcome = "returned"
    /\ saved # None
    /\ top_k = 1
    /\ Len(metadata) >= 2
    /\ \A q \in Queries :
          /\ Snapshot.results[q].outcome = "returned"
          /\ Len(Snapshot.results[q].result) = 1

----------------------------------------------------------------------------
(* retrieve and generate_answer. *)

\* The state build_index leaves when it returns: one vector per chunk.
BuiltFrom ==
    /\ index # None
    /\ documents = metadata
    /\ index = Embedded(metadata)

\* C8: in a Ready state built from N chunks, with top_k >= 1 as every
\* caller constructs it, retrieve returns min(top_k, N) documents (N when
\* N < top_k), each a stored chunk record with a score
\* field added that holds its similarity to the query, in descending score
\* order, and no chunk left out scores higher than one returned.
C8_TopK ==
    last.op = "retrieve" /\ BuiltFrom =>
        LET r == last.result
            N == Len(metadata)
            Similarity(d) == InnerProduct(Encode(last.arg), Encode(d.text))
            WithScore(d) == [score |-> Similarity(d)] @@ d
        IN  /\ last.outcome = "returned"
            /\ Len(r) = Min(top_k, N)
            /\ \A i \in 1..Len(r) : \E j \in 1..N : r[i] = WithScore(metadata[j])
            /\ \A i, j \in 1..Len(r) : i < j => r[i].score >= r[j].score /\ r[i] # r[j]
            /\ \A j \in 1..N :
                  (\A i \in 1..Len(r) : r[i] # WithScore(metadata[j])) =>
                      \A i \in 1..Len(r) : r[i].score >= Similarity(metadata[j])

\* retrieve returned all N = 2 chunks of a corpus smaller than top_k, the
\* second stored chunk first.
C8_Witness ==
    /\ last.op = "retrieve"
    /\ BuiltFrom
    /\ Len(metadata) = 2
    /\ top_k > 2
    /\ last.outcome = "returned"
    /\ Len(last.result) = 2
    /\ last.result[1].text = metadata[2].text

\* C9: retrieve on an index whose corpus holds zero chunks returns the
\* empty sequence and does not raise.
C9_EmptyRetrieve ==
    last.op = "retrieve" /\ index # None /\ documents = <<>> =>
        last.outcome = "returned" /\ last.result = <<>>

\* C10: generate_answer returns a string whatever the query, the context and
\* the completion call do, and the disabled sentinel when no client is
\* configured.
C10_AlwaysString ==
    last.op = "generate_answer" =>
        /\ last.outcome = "returned"
        /\ last.result.type = "str"
        /\ ~groq_client => last.result = DisabledSentinel

----------------------------------------------------------------------------
(* query. *)

\* C11: query fails exactly when retrieve fails on the same question, and
\* with the same error; when retrieve returns, query returns a record with
\* the question, the sequence retrieve returns and an answer that
\* generate_answer gives for the question and that sequence, whatever the
\* completion call does and with or without a client.
C11_QueryFailsOnlyWithRetrieve ==
    last.op = "query" =>
        LET retrieved == RetrieveCall(last.arg)
        IN  /\ last.outcome = "returned" <=> retrieved.outcome = "returned"
            /\ retrieved.outcome # "returned" => last.outcome = retrieved.outcome
            /\ retrieved.outcome = "returned" =>
                  /\ last.result.question = last.arg
                  /\ last.result.retrieved_documents = retrieved.result
                  /\ \E c \in Completions :
                        /\ GenerateCall(last.arg, retrieved.result, c).outcome = "returned"
                        /\ last.result.answer =
                              GenerateCall(last.arg, retrieved.result, c).result

\* query returned two retrieved documents and the message of a failed
\* completion call as its answer.
C11_Witness ==
    /\ last.op = "query"
    /\ last.outcome = "returned"
    /\ groq_client
    /\ Len(last.result.retrieved_documents) >= 2
    /\ last.result.answer = Str("Error generating answer: Connection error.")

----------------------------------------------------------------------------
(* build_index with no documents. *)

\* C12: a build_index call with zero chunks fails with the empty-input
\* error and leaves index, documents and metadata as they were, whether
\* the object held an index before the call or not.
C12_EmptyBuildRefused ==
    [][ last'.op = "build_index" /\ last'.arg = <<>> =>
          /\ last'.outcome = "ValueError: No documents provided"
          /\ UNCHANGED <<index, documents, metadata>> ]_vars

\* build_index refused an empty list on an object that holds an index and
\* its chunks.
C12_Witness ==
    /\ last.op = "build_index"
    /\ last.arg = <<>>
    /\ last.outcome = "ValueError: No documents provided"
    /\ index # None
    /\ Len(documents) >= 2

----------------------------------------------------------------------------
(* retrieve reads only. *)

\* No stored chunk record has a 'score' field.
NoStoredScore ==
    /\ \A i \in 1..Len(metadata) : "score" \notin DOMAIN metadata[i]
    /\ \A i \in 1..Len(documents) : "score" \notin DOMAIN documents[i]

\* C13: retrieve is idempotent and read-only. A retrieve call leaves index,
\* documents, metadata and the configuration unchanged, and what it returned
\* is what a further retrieve with the same query returns in the state it
\* left; everything retrieve reads changes only by a build_index or a
\* load_index call (or on a newly constructed object); and the stored
\* records never acquire the 'score' field of the returned copies.
C13_RetrieveReadOnly ==
    [][ /\ last'.op = "retrieve" =>
              UNCHANGED <<index, documents, metadata, chunk_size, chunk_overlap, top_k>>
        /\ last.op = "retrieve" =>
              /\ last.outcome = RetrieveCall(last.arg).outcome
              /\ last.result = RetrieveCall(last.arg).result
        /\ last'.op \notin {"build_index", "load_index", "__init__"} =>
              UNCHANGED <<index, documents, metadata, top_k, faiss_checks_k>>
        /\ NoStoredScore' ]_vars

\* retrieve returned two or more scored copies and the stored records have
\* no score.
C13_Witness ==
    /\ last.op = "retrieve"
    /\ last.outcome = "returned"
    /\ Len(last.result) >= 2
    /\ \A i \in 1..Len(last.result) : "score" \in DOMAIN last.result[i]
    /\ NoStoredScore

----------------------------------------------------------------------------
(* load_documents. *)

\* The paths of a list that name a file, in the order of the list.
ExistingPaths(paths) == SelectSeq(paths, LAMBDA p : Exists(PurePath(p)))

\* The number of chunks chunk_text yields for the file a path names.
ChunkCount(p) == Len(ChunkText(Read(PurePath(p))))

\* The number of chunks of the first k - 1 files of a list.
RECURSIVE ChunksBefore(_, _)
ChunksBefore(paths, k) ==
    IF k <= 1 THEN 0 ELSE ChunksBefore(paths, k - 1) + ChunkCount(paths[k - 1])

\* C14: load_documents skips the paths that do not exist and returns the
\* concatenation, in input-path order, of the chunk records of each existing
\* file: the i-th chunk of the k-th existing file stands right after the
\* chunks of the files before it, with chunk_id i - 1 (counted from 0) and
\* total_chunks n, the number of chunks chunk_text yields for that file.
C14_LoadConcatenates ==
    load_pc = "done" =>
        LET existing == ExistingPaths(file_paths)
        IN  /\ Len(all_chunks) = ChunksBefore(existing, Len(existing) + 1)
            /\ \A k \in 1..Len(existing) : \A i \in 1..ChunkCount(existing[k]) :
                  LET rec == all_chunks[ChunksBefore(existing, k) + i]
                  IN  /\ rec.text = ChunkText(Read(PurePath(existing[k])))[i]
                      /\ rec.source = PurePath(existing[k])
                      /\ rec.chunk_id = i - 1
                      /\ rec.total_chunks = ChunkCount(existing[k])

\* load_documents returned for a list whose first path names no file and
\* whose second names a file of several chunks.
C14_Witness ==
    /\ load_pc = "done"
    /\ Len(file_paths) = 2
    /\ ~Exists(PurePath(file_paths[1]))
    /\ Exists(PurePath(file_paths[2]))
    /\ Len(all_chunks) >= 3
    /\ all_chunks[3].chunk_id = 2

----------------------------------------------------------------------------
(* The index and the two chunk lists stay aligned. *)

\* C15: whenever index is not None, the number of vectors in the index
\* equals len(documents) equals len(metadata), and retrieve never returns a
\* record for a padding (-1) hit.
C15_Aligned ==
    /\ index # None =>
          /\ Len(index.vecs) = Len(documents)
          /\ Len(documents) = Len(metadata)
    /\ last.op = "retrieve" /\ last.outcome = "returned" =>
          \A i \in 1..Len(last.result) : last.result[i].score # PaddingScore

----------------------------------------------------------------------------
(* chunk_text terminates. *)

\* C16: for every chunk_size and chunk_overlap a RAGSystem can be
\* constructed with, the window start strictly increases on every pass of
\* the loop of chunk_text that does not return, so the loop ends.
C16_StartIncreases ==
    [][ pc = "loop" /\ pc' = "loop" /\ chunks' # chunks => start' > start ]_vars

====
